---- MODULE Spec2Model ----
(***************************************************************************)
(* VRBLL WebSocket relay (src/wsServer.ts) with its session registry       *)
(* (src/session.ts) and message store (./messageStore, imported by         *)
(* wsServer.ts; only its unit test is in the repository).                  *)
(*                                                                         *)
(* The server runs on one JavaScript event loop, so each event handler     *)
(* (ws.on('message'), ws.on('close')) is one atomic action.  ws.send is a  *)
(* synchronous hand-over to the socket: the frames a handler writes to a   *)
(* connection are recorded, in order, in sent[c].                          *)
(***************************************************************************)
EXTENDS Integers, Sequences, FiniteSets, TLC

(* ------------------------------ bounds --------------------------------- *)
NConn == 2            \* connections of one behaviour, numbered in order of arrival
MaxBacklog == 59      \* messages already accepted in the warm initial state
MaxEvents == 2        \* accepted joins, rate-limited `message` events and clock advances
MaxBurst == 22        \* messages in the history of a burst
MaxRejected == 2      \* rejected `message` events counted in one window of a burst
MaxIds == 4           \* session ids of the registry exercised on its own

(* ------------------------- program constants --------------------------- *)
RATE_LIMIT_WINDOW == 5000
RATE_LIMIT_MAX == 10
HISTORY_SLICE == 50
NoSession == 0        \* let sessionId: string | null = null

Conns == 1..NConn

(* --------------------------- JavaScript values -------------------------- *)
(* Strings are sequences of characters, so that .length is Len.            *)
JStr(s) == [t |-> "string", v |-> s]
JNum == [t |-> "number", v |-> <<"4", "2">>]      \* the number 42
JUndef == [t |-> "undefined", v |-> <<>>]

\* !x of JavaScript: undefined and "" are falsy, 42 and non-empty strings truthy
Falsy(x) == x.t = "undefined" \/ (x.t = "string" /\ x.v = <<>>)
TypeofString(x) == x.t = "string"

JOIN == <<"j", "o", "i", "n">>
MESSAGE == <<"m", "e", "s", "s", "a", "g", "e">>
PING == <<"p", "i", "n", "g">>
AL == <<"a", "l">>
BOB == <<"b", "o", "b">>
HI == <<"h", "i">>
UNKNOWN == <<"u", "n", "k", "n", "o", "w", "n">>

(* Inbound frames: the text of one WebSocket message.  `json` says whether *)
(* JSON.parse accepts it; the fields are those of the parsed object.       *)
Frame(ty, un, co) == [json |-> TRUE, type |-> ty, username |-> un, content |-> co]
Unparseable == [json |-> FALSE, type |-> JUndef, username |-> JUndef, content |-> JUndef]

\* "al" is the name of the session of the warm initial state; new joins use "bob"
JoinFrames == {Frame(JStr(JOIN), u, JUndef) :
                 u \in {JUndef, JNum, JStr(<<"a">>), JStr(BOB)}}
MessageFrames == {Frame(JStr(MESSAGE), JUndef, x) :
                    x \in {JUndef, JNum, JStr(<<>>), JStr(HI)}}
OtherFrames == {Unparseable, Frame(JUndef, JUndef, JUndef), Frame(JNum, JUndef, JUndef),
                Frame(JStr(PING), JUndef, JUndef)}
Frames == JoinFrames \cup MessageFrames \cup OtherFrames

(* ---------------------------- outbound frames --------------------------- *)
ErrorFrame(text) == [type |-> "error", error |-> text]
WelcomeFrame(sid) == [type |-> "welcome", sessionId |-> sid]
PresenceFrame(ev, user) == [type |-> "presence", event |-> ev, username |-> user]
HistoryFrame(msgs) == [type |-> "history", messages |-> msgs]
MessageFrame(m) == [type |-> "message", id |-> m.id, from |-> m.from,
                    content |-> m.content, timestamp |-> m.timestamp]

VARIABLES
  clients,       \* wss.clients, in insertion order
  readyState,    \* readyState of each connection's socket
  sessionId,     \* the `sessionId` closure variable of each connection
  sessions,      \* session.ts: the `sessions` map
  rateLimitMap,  \* wsServer.ts: rateLimitMap
  history,       \* messageStore: the stored messages
  now,           \* Date.now()
  uuid,          \* the next value uuidv4() returns
  sent,          \* frames written to each connection by the last handler
  last,          \* the last event: its kind, its connection, the frame's `type`
  rcvd,          \* ids of the `message` frames each connection has been sent so far
  nWelcome,      \* `welcome` frames each connection has been sent so far
  nHistory,      \* `history` frames each connection has been sent so far
  nEvents        \* accepted joins, rate-limited `message` events and clock advances

vars == <<clients, readyState, sessionId, sessions, rateLimitMap, history, now,
          uuid, sent, last, rcvd, nWelcome, nHistory, nEvents>>

Range(s) == {s[i] : i \in 1..Len(s)}
Event(op, c, type) == [op |-> op, conn |-> c, type |-> type]
NoneSent == [c \in Conns |-> <<>>]
Remove(s, x) == SelectSeq(s, LAMBDA y : y # x)

(* ------------------------------ session.ts ------------------------------ *)
\* const session = { id, username, connectedAt: Date.now() }
Session(id, username, t) == [id |-> id, username |-> username, connectedAt |-> t]

\* a session built and returned, and never put into the map
createSessionNoSet(ss, id, username, t) == ss

\* sessions.set(id, session): an entry under a key already there is replaced
createSession(ss, id, username, t) ==
  [k \in DOMAIN ss \cup {id} |-> IF k = id THEN Session(id, username, t) ELSE ss[k]]

HasSession(ss, id) == id \in DOMAIN ss
getSession(ss, id) == ss[id]
\* a removal that leaves the map as it was
removeSessionKeep(ss, id) == ss

\* a deletion that empties the map
removeSessionClear(ss, id) == <<>>

\* sessions.delete(id)
removeSession(ss, id) == [k \in DOMAIN ss \ {id} |-> ss[k]]

\* Array.from(sessions.values()): the sessions of the map (as a set: the array's order,
\* the insertion order of the Map, is not modelled)
listSessions(ss) == {ss[k] : k \in DOMAIN ss}

(* ---------------------------- ./messageStore ---------------------------- *)
storeMessage(h, m) == Append(h, m)
getMessages(h) == h

(* -------------------------- wsServer.ts helpers ------------------------- *)
\* ws.send / client.send: the frame is handed to the socket of connection c
WsSend(out, c, f) == [out EXCEPT ![c] = Append(@, f)]

RECURSIVE BroadcastFrom(_, _, _, _, _)
BroadcastFrom(cl, rs, out, data, i) ==
  IF i > Len(cl) THEN out
  ELSE BroadcastFrom(cl, rs,
                     IF rs[cl[i]] = "OPEN" THEN WsSend(out, cl[i], data) ELSE out,
                     data, i + 1)

\* a fanout that gives up at the first client that is not open
RECURSIVE BroadcastAbortFrom(_, _, _, _, _)
BroadcastAbortFrom(cl, rs, out, data, i) ==
  IF i > Len(cl) \/ rs[cl[i]] # "OPEN" THEN out
  ELSE BroadcastAbortFrom(cl, rs, WsSend(out, cl[i], data), data, i + 1)

broadcastAbort(cl, rs, out, data) == BroadcastAbortFrom(cl, rs, out, data, 1)

\* wss.clients.forEach(client => { if (client.readyState === OPEN) client.send(..) })
broadcast(cl, rs, out, data) == BroadcastFrom(cl, rs, out, data, 1)

\* Array.prototype.slice(-n)
SliceLast(s, n) == IF Len(s) <= n THEN s ELSE SubSeq(s, Len(s) - n + 1, Len(s))

sendHistoryAll(out, c, h) == WsSend(out, c, HistoryFrame(getMessages(h)))

\* sendHistory(): ws.send({type: 'history', messages: getMessages().slice(-50)})
sendHistory(out, c, h) == WsSend(out, c, HistoryFrame(SliceLast(getMessages(h), HISTORY_SLICE)))

(* The state a handler reads and writes, threaded through its statements.  *)
HState(c) == [sid |-> sessionId[c], ss |-> sessions, rl |-> rateLimitMap,
              h |-> history, uuid |-> uuid, out |-> NoneSent]

\* the error handed to the fanout instead of the connection's own socket
ReplyBroadcast(s, c, text) ==
  [s EXCEPT !.out = broadcast(clients, readyState, @, ErrorFrame(text))]

Reply(s, c, text) == [s EXCEPT !.out = WsSend(@, c, ErrorFrame(text))]

AlreadyJoinedNever(sid) == FALSE

\* if (sessionId) in the join branch
AlreadyJoined(sid) == sid # NoSession

\* only the presence of a username checked
InvalidUsernameLenient(u) == Falsy(u)

\* !msg.username || typeof msg.username !== 'string' || msg.username.length < 2
InvalidUsername(u) == Falsy(u) \/ ~TypeofString(u) \/ Len(u.v) < 2

\* the session id bound to the connection and the session never registered
NewSessionUnregistered(s, msg) == [s EXCEPT !.sid = s.uuid, !.uuid = s.uuid + 1]

\* lines 51-52: sessionId = uuidv4(); createSession(sessionId, msg.username)
NewSession(s, msg) ==
  [s EXCEPT !.sid = s.uuid, !.uuid = s.uuid + 1,
            !.ss = createSession(s.ss, s.uuid, msg.username.v, now)]

\* the backlog written before the welcome
AcceptJoinHistoryFirst(s, c, msg) ==
  LET o1 == sendHistory(s.out, c, s.h)
      o2 == WsSend(o1, c, WelcomeFrame(s.uuid))
      o3 == broadcast(clients, readyState, o2, PresenceFrame("join", msg.username.v))
  IN [NewSession(s, msg) EXCEPT !.out = o3]

\* the presence announced after the backlog
AcceptJoinPresenceLast(s, c, msg) ==
  LET o1 == WsSend(s.out, c, WelcomeFrame(s.uuid))
      o2 == sendHistory(o1, c, s.h)
      o3 == broadcast(clients, readyState, o2, PresenceFrame("join", msg.username.v))
  IN [NewSession(s, msg) EXCEPT !.out = o3]

\* the presence announced to the other connections only
AcceptJoinOthersOnly(s, c, msg) ==
  LET o1 == WsSend(s.out, c, WelcomeFrame(s.uuid))
      o2 == broadcast(Remove(clients, c), readyState, o1,
                      PresenceFrame("join", msg.username.v))
      o3 == sendHistory(o2, c, s.h)
  IN [NewSession(s, msg) EXCEPT !.out = o3]

\* lines 51-56: the accepted join
AcceptJoin(s, c, msg) ==
  LET o1 == WsSend(s.out, c, WelcomeFrame(s.uuid))
      o2 == broadcast(clients, readyState, o1, PresenceFrame("join", msg.username.v))
      o3 == sendHistory(o2, c, s.h)
  IN [NewSession(s, msg) EXCEPT !.out = o3]

JoinBranch(s, c, msg) ==
  IF AlreadyJoined(s.sid) THEN Reply(s, c, "Already joined")
  ELSE IF InvalidUsername(msg.username) THEN Reply(s, c, "Invalid username")
  ELSE AcceptJoin(s, c, msg)

\* a counter that stops at the maximum
RateLimitEntryCapped(rl, sid, t) ==
  LET rl0 == IF sid \in DOMAIN rl THEN rl[sid] ELSE [count |-> 0, last |-> t]
      rl1 == IF t - rl0.last > RATE_LIMIT_WINDOW THEN [count |-> 0, last |-> t] ELSE rl0
  IN [rl1 EXCEPT !.count = IF @ < RATE_LIMIT_MAX THEN @ + 1 ELSE @]

\* a denial that restarts the window
RateLimitEntryExtend(rl, sid, t) ==
  LET rl0 == IF sid \in DOMAIN rl THEN rl[sid] ELSE [count |-> 0, last |-> t]
      rl1 == IF t - rl0.last > RATE_LIMIT_WINDOW THEN [count |-> 0, last |-> t] ELSE rl0
  IN IF rl1.count >= RATE_LIMIT_MAX THEN [count |-> rl1.count + 1, last |-> t]
     ELSE [rl1 EXCEPT !.count = @ + 1]

\* lines 59-66: the rate limiter's bookkeeping for one `message` event
RateLimitEntry(rl, sid, t) ==
  LET rl0 == IF sid \in DOMAIN rl THEN rl[sid] ELSE [count |-> 0, last |-> t]
      rl1 == IF t - rl0.last > RATE_LIMIT_WINDOW THEN [count |-> 0, last |-> t] ELSE rl0
  IN [rl1 EXCEPT !.count = @ + 1]

RateLimitSet(rl, sid, e) == [k \in DOMAIN rl \cup {sid} |-> IF k = sid THEN e ELSE rl[k]]

OverLimitLate(e) == e.count > RATE_LIMIT_MAX + 1

\* if (rl.count > RATE_LIMIT_MAX)
OverLimit(e) == e.count > RATE_LIMIT_MAX

\* !msg.content || typeof msg.content !== 'string' || msg.content.length === 0
EmptyMessage(x) == Falsy(x) \/ ~TypeofString(x) \/ Len(x.v) = 0

\* lines 75-81: const user = getSession(sessionId)?.username || 'unknown'; chatMsg
ChatMsg(s, msg) ==
  [id |-> s.uuid,
   from |-> IF HasSession(s.ss, s.sid) THEN getSession(s.ss, s.sid).username ELSE UNKNOWN,
   content |-> msg.content.v,
   timestamp |-> now]

\* the new message put in front of the log
AcceptMessagePrepend(s, c, msg) ==
  [s EXCEPT !.uuid = @ + 1,
            !.h = <<ChatMsg(s, msg)>> \o s.h,
            !.out = broadcast(clients, readyState, s.out, MessageFrame(ChatMsg(s, msg)))]

\* the sender's name not looked up
AcceptMessageAnon(s, c, msg) ==
  LET chatMsg == [ChatMsg(s, msg) EXCEPT !.from = UNKNOWN]
  IN [s EXCEPT !.uuid = @ + 1,
               !.h = storeMessage(s.h, chatMsg),
               !.out = broadcast(clients, readyState, s.out, MessageFrame(chatMsg))]

\* the new message written over the newest entry of the log
AcceptMessageOverwrite(s, c, msg) ==
  [s EXCEPT !.uuid = @ + 1,
            !.h = IF s.h = <<>> THEN <<ChatMsg(s, msg)>>
                  ELSE [s.h EXCEPT ![Len(s.h)] = ChatMsg(s, msg)],
            !.out = broadcast(clients, readyState, s.out, MessageFrame(ChatMsg(s, msg)))]

\* lines 75-83: the accepted message
AcceptMessage(s, c, msg) ==
  [s EXCEPT !.uuid = @ + 1,
            !.h = storeMessage(s.h, ChatMsg(s, msg)),
            !.out = broadcast(clients, readyState, s.out, MessageFrame(ChatMsg(s, msg)))]

\* a rejected message stored all the same
MessageBranchStoreRejected(s, c, msg) ==
  LET e == RateLimitEntry(s.rl, s.sid, now)
      s1 == [s EXCEPT !.rl = RateLimitSet(s.rl, s.sid, e)]
  IN IF EmptyMessage(msg.content) THEN Reply(s1, c, "Empty message")
     ELSE IF OverLimit(e)
          THEN Reply([s1 EXCEPT !.uuid = @ + 1, !.h = storeMessage(s1.h, ChatMsg(s1, msg))],
                     c, "Rate limit exceeded")
     ELSE AcceptMessage(s1, c, msg)

MessageBranch(s, c, msg) ==
  LET e == RateLimitEntry(s.rl, s.sid, now)
      s1 == [s EXCEPT !.rl = RateLimitSet(s.rl, s.sid, e)]
  IN IF OverLimit(e) THEN Reply(s1, c, "Rate limit exceeded")
     ELSE IF EmptyMessage(msg.content) THEN Reply(s1, c, "Empty message")
     ELSE AcceptMessage(s1, c, msg)

AuthorizedAlways(sid) == TRUE

\* `&& sessionId` of the message branch's condition
Authorized(sid) == sid # NoSession

\* no catch around JSON.parse: a frame that does not parse is not answered
HandleMessageNoCatch(s, c, data) ==
  IF ~data.json THEN s
  ELSE IF Falsy(data.type) \/ ~TypeofString(data.type)
       THEN Reply(s, c, "Missing or invalid type")
  ELSE IF data.type.v = JOIN THEN JoinBranch(s, c, data)
  ELSE IF data.type.v = MESSAGE /\ Authorized(s.sid) THEN MessageBranch(s, c, data)
  ELSE Reply(s, c, "Unknown or unauthorized event")

\* lines 34-90: ws.on('message', data => ...)
HandleMessage(s, c, data) ==
  IF ~data.json THEN Reply(s, c, "Invalid message format")
  ELSE IF Falsy(data.type) \/ ~TypeofString(data.type)
       THEN Reply(s, c, "Missing or invalid type")
  ELSE IF data.type.v = JOIN THEN JoinBranch(s, c, data)
  ELSE IF data.type.v = MESSAGE /\ Authorized(s.sid) THEN MessageBranch(s, c, data)
  ELSE Reply(s, c, "Unknown or unauthorized event")

\* the session removed without announcing the leave
HandleCloseQuiet(s, c, cl, rs) ==
  IF s.sid # NoSession /\ HasSession(s.ss, s.sid)
  THEN [s EXCEPT !.ss = removeSession(s.ss, s.sid)]
  ELSE s

\* a leave announced for every closed connection, joined or not
HandleCloseAlways(s, c, cl, rs) ==
  IF s.sid # NoSession /\ HasSession(s.ss, s.sid)
  THEN [s EXCEPT !.ss = removeSession(s.ss, s.sid),
                 !.out = broadcast(cl, rs, s.out,
                                   PresenceFrame("leave", getSession(s.ss, s.sid).username))]
  ELSE [s EXCEPT !.out = broadcast(cl, rs, s.out, PresenceFrame("leave", UNKNOWN))]

\* the leave announced and the session left in the registry
HandleCloseKeepSession(s, c, cl, rs) ==
  IF s.sid # NoSession /\ HasSession(s.ss, s.sid)
  THEN [s EXCEPT !.out = broadcast(cl, rs, s.out,
                                   PresenceFrame("leave", getSession(s.ss, s.sid).username))]
  ELSE s

\* lines 92-98: ws.on('close', ...), run with the socket CLOSED and out of wss.clients
HandleClose(s, c, cl, rs) ==
  IF s.sid # NoSession
  THEN IF HasSession(s.ss, s.sid)
       THEN [s EXCEPT !.ss = removeSession(s.ss, s.sid),
                      !.out = broadcast(cl, rs, s.out,
                                        PresenceFrame("leave", getSession(s.ss, s.sid).username))]
       ELSE s
  ELSE s

(* ------------------------------ initial state --------------------------- *)
\* A fresh server: nothing connected, nothing stored.
InitFresh ==
  /\ clients = <<>>
  /\ readyState = [c \in Conns |-> "NONE"]
  /\ sessionId = [c \in Conns |-> NoSession]
  /\ sessions = <<>>
  /\ rateLimitMap = <<>>
  /\ history = <<>>
  /\ now = 0
  /\ uuid = 1
  /\ rcvd = [c \in Conns |-> <<>>]
  /\ nWelcome = [c \in Conns |-> 0]
  /\ nHistory = [c \in Conns |-> 0]

(* A server that has been running: connection 1 joined as "al" at time 0   *)
(* (session id 1) and has sent k messages since, RATE_LIMIT_MAX in each    *)
(* window, the windows RATE_LIMIT_WINDOW + 1 ms apart; the last of them    *)
(* was accepted in the current millisecond.                                *)
WarmTime(i) == ((i - 1) \div RATE_LIMIT_MAX) * (RATE_LIMIT_WINDOW + 1)
WarmMessage(i) == [id |-> i + 1, from |-> AL, content |-> HI, timestamp |-> WarmTime(i)]
WarmHistory(k) == [i \in 1..k |-> WarmMessage(i)]

InitWarm(k) ==
  /\ clients = <<1>>
  /\ readyState = [c \in Conns |-> IF c = 1 THEN "OPEN" ELSE "NONE"]
  /\ sessionId = [c \in Conns |-> IF c = 1 THEN 1 ELSE NoSession]
  /\ sessions = createSession(<<>>, 1, AL, 0)
  /\ rateLimitMap = RateLimitSet(<<>>, 1, [count |-> ((k - 1) % RATE_LIMIT_MAX) + 1,
                                           last |-> WarmTime(k)])
  /\ history = WarmHistory(k)
  /\ now = WarmTime(k)
  /\ uuid = k + 2
  /\ rcvd = [c \in Conns |-> IF c = 1 THEN [i \in 1..k |-> WarmMessage(i).id] ELSE <<>>]
  /\ nWelcome = [c \in Conns |-> IF c = 1 THEN 1 ELSE 0]
  /\ nHistory = [c \in Conns |-> IF c = 1 THEN 1 ELSE 0]

Init ==
  /\ InitFresh \/ InitWarm(MaxBacklog)
  /\ sent = NoneSent
  /\ last = Event("init", 0, JUndef)
  /\ nEvents = 0

(* -------------------------------- actions ------------------------------- *)
Count(s, type) == Len(SelectSeq(s, LAMBDA f : f.type = type))
MessagesOf(s) == SelectSeq(s, LAMBDA f : f.type = "message")
Ids(s) == [i \in 1..Len(s) |-> s[i].id]

Observe(out) ==
  /\ sent' = out
  /\ rcvd' = [c \in Conns |-> rcvd[c] \o Ids(MessagesOf(out[c]))]
  /\ nWelcome' = [c \in Conns |-> nWelcome[c] + Count(out[c], "welcome")]
  /\ nHistory' = [c \in Conns |-> nHistory[c] + Count(out[c], "history")]

\* wss.on('connection', ws => ...): a new socket, open, with no session
Connect(c) ==
  /\ readyState[c] = "NONE"
  /\ \A d \in 1..(c - 1) : readyState[d] # "NONE"
  /\ clients' = Append(clients, c)
  /\ readyState' = [readyState EXCEPT ![c] = "OPEN"]
  /\ Observe(NoneSent)
  /\ last' = Event("connect", c, JUndef)
  /\ UNCHANGED <<sessionId, sessions, rateLimitMap, history, now, uuid, nEvents>>

\* what the 'message' handler run on frame `data` of connection c leaves behind
Deliver(c, data, s) ==
  /\ sessionId' = [sessionId EXCEPT ![c] = s.sid]
  /\ sessions' = s.ss
  /\ rateLimitMap' = s.rl
  /\ history' = s.h
  /\ uuid' = s.uuid
  /\ Observe(s.out)
  /\ last' = Event("message", c, data.type)
  /\ UNCHANGED <<clients, readyState, now>>

\* a frame arrives on an open connection and its 'message' handler runs
OnMessage(c, data) ==
  /\ readyState[c] = "OPEN"
  /\ LET s == HandleMessage(HState(c), c, data)
         counted == s.uuid # uuid \/ s.rl # rateLimitMap
     IN /\ counted => nEvents < MaxEvents
        /\ nEvents' = IF counted THEN nEvents + 1 ELSE nEvents
        /\ Deliver(c, data, s)

\* the socket starts closing (close frame, error or timeout): OPEN -> CLOSING
BeginClose(c) ==
  /\ readyState[c] = "OPEN"
  /\ readyState' = [readyState EXCEPT ![c] = "CLOSING"]
  /\ Observe(NoneSent)
  /\ last' = Event("closing", c, JUndef)
  /\ UNCHANGED <<clients, sessionId, sessions, rateLimitMap, history, now, uuid, nEvents>>

\* the socket is closed: it leaves wss.clients and its 'close' handler runs
OnClose(c) ==
  /\ readyState[c] = "CLOSING"
  /\ LET cl == Remove(clients, c)
         rs == [readyState EXCEPT ![c] = "CLOSED"]
         s == HandleClose(HState(c), c, cl, rs)
     IN /\ clients' = cl
        /\ readyState' = rs
        /\ sessions' = s.ss
        /\ Observe(s.out)
  /\ last' = Event("close", c, JUndef)
  /\ UNCHANGED <<sessionId, rateLimitMap, history, now, uuid, nEvents>>

\* wall-clock time passes
Tick(d) ==
  /\ nEvents < MaxEvents
  /\ nEvents' = nEvents + 1
  /\ now' = now + d
  /\ Observe(NoneSent)
  /\ last' = Event("tick", 0, JUndef)
  /\ UNCHANGED <<clients, readyState, sessionId, sessions, rateLimitMap, history, uuid>>

TickSteps == {RATE_LIMIT_WINDOW - 1, RATE_LIMIT_WINDOW, RATE_LIMIT_WINDOW + 1}

Next ==
  \/ \E c \in Conns : Connect(c)
  \/ \E c \in Conns, data \in Frames : OnMessage(c, data)
  \/ \E c \in Conns : BeginClose(c)
  \/ \E c \in Conns : OnClose(c)
  \/ \E d \in TickSteps : Tick(d)

Spec == Init /\ [][Next]_vars

(* ------------------- the session registry on its own -------------------- *)
(* session.ts called directly, as its unit test does: any id, present or   *)
(* not, may be created or removed.                                         *)
RegIds == 1..MaxIds
RegNames == {AL, BOB}

ServerIdle ==
  /\ Observe(NoneSent)
  /\ UNCHANGED <<clients, readyState, sessionId, rateLimitMap, history, now, uuid, nEvents>>

\* createSession(id, username); `last` keeps the session it returned
CreateSessionCall(id, username) ==
  /\ sessions' = createSession(sessions, id, username, now)
  /\ last' = Event("createSession", id, Session(id, username, now))
  /\ ServerIdle

\* removeSession(id)
RemoveSessionCall(id) ==
  /\ sessions' = removeSession(sessions, id)
  /\ last' = Event("removeSession", id, JUndef)
  /\ ServerIdle

NextRegistry ==
  \/ \E id \in RegIds, username \in RegNames : CreateSessionCall(id, username)
  \/ \E id \in RegIds : RemoveSessionCall(id)

InitRegistry ==
  /\ InitFresh
  /\ sent = NoneSent
  /\ last = Event("init", 0, JUndef)
  /\ nEvents = 0

SpecRegistry == InitRegistry /\ [][NextRegistry]_vars

(* ------------------------ names and contents --------------------------- *)
(* The relay with other usernames and contents: a user who joins as        *)
(* "unknown", and a message the moderation store (aimoderationStore.ts)    *)
(* flags.  wsServer.ts does not import the moderation store.               *)
SPAM == <<"s", "p", "a", "m">>
ABUSE == <<"a", "b", "u", "s", "e">>
TOXIC == <<"t", "o", "x", "i", "c">>
NO_SPAM == <<"n", "o", " ", "s", "p", "a", "m">>

bannedWords == <<SPAM, ABUSE, TOXIC>>

\* String.prototype.includes
Includes(s, w) == \E i \in 0..(Len(s) - Len(w)) : SubSeq(s, i + 1, i + Len(w)) = w

\* `Flagged for '${word}'`
FlaggedFor(word) ==
  <<"F", "l", "a", "g", "g", "e", "d", " ", "f", "o", "r", " ", "'">> \o word \o <<"'">>

\* moderateMessage(user, message): the first banned word the message includes flags it
moderateMessage(user, message) ==
  LET hits == {i \in DOMAIN bannedWords : Includes(message, bannedWords[i])}
  IN IF hits = {} THEN [flagged |-> FALSE, reason |-> <<>>]
     ELSE [flagged |-> TRUE,
           reason |-> FlaggedFor(bannedWords[CHOOSE i \in hits : \A j \in hits : i <= j])]

ContentFrames ==
  {Frame(JStr(JOIN), JStr(BOB), JUndef), Frame(JStr(JOIN), JStr(UNKNOWN), JUndef),
   Frame(JStr(MESSAGE), JUndef, JStr(HI)), Frame(JStr(MESSAGE), JUndef, JStr(NO_SPAM))}

NextContent ==
  \/ \E c \in Conns : Connect(c)
  \/ \E c \in Conns, data \in ContentFrames : OnMessage(c, data)
  \/ \E c \in Conns : BeginClose(c)
  \/ \E c \in Conns : OnClose(c)

SpecContent == Init /\ [][NextContent]_vars

(* --------------------------- one session's burst ------------------------ *)
(* One joined connection that has just had its first message accepted and  *)
(* goes on sending valid messages while the clock advances: long runs of   *)
(* the rate limiter, over several windows.                                 *)
BurstFrame == Frame(JStr(MESSAGE), JUndef, JStr(HI))

BurstMessage(c) ==
  /\ readyState[c] = "OPEN"
  /\ sessionId[c] # NoSession
  /\ LET s == HandleMessage(HState(c), c, BurstFrame)
     IN /\ Len(s.h) <= MaxBurst
        /\ s.rl[s.sid].count <= RATE_LIMIT_MAX + MaxRejected
        /\ Deliver(c, BurstFrame, s)
  /\ UNCHANGED nEvents

NextBurst ==
  \/ \E c \in Conns : BurstMessage(c)
  \/ \E d \in TickSteps : Tick(d)

InitBurst ==
  /\ InitWarm(1)
  /\ sent = NoneSent
  /\ last = Event("init", 0, JUndef)
  /\ nEvents = 0

SpecBurst == InitBurst /\ [][NextBurst]_vars

(* ------------------------------ properties ------------------------------ *)
\* last' = JoinOn(c) (MessageOn(c)) holds of exactly the steps OnMessage(c, data) with
\* data a `join` (`message`) frame
Has(s, type) == \E i \in DOMAIN s : s[i].type = type
OnlyTo(c, f) == [NoneSent EXCEPT ![c] = <<f>>]
IsOpen(c) == readyState[c] = "OPEN"
JoinOn(c) == Event("message", c, JStr(JOIN))
MessageOn(c) == Event("message", c, JStr(MESSAGE))

(* C1 (P1, join-once): a `join` frame on a connection that already has a  *)
(* session is answered with the single frame error "Already joined", sent *)
(* to that connection only, and changes neither the registry, nor the     *)
(* connection's session id, nor the history, nor the rate-limit state.    *)
C1_JoinOnce ==
  [][\A c \in Conns :
       (last' = JoinOn(c) /\ sessionId[c] # NoSession) =>
         /\ sent' = OnlyTo(c, ErrorFrame("Already joined"))
         /\ sessions' = sessions
         /\ sessionId' = sessionId
         /\ history' = history
         /\ rateLimitMap' = rateLimitMap]_vars

C1_Witness ==
  \E c \in Conns :
    /\ last = JoinOn(c)
    /\ sessionId[c] \in DOMAIN sessions
    /\ sent = OnlyTo(c, ErrorFrame("Already joined"))

(* C2 (P2, ordering): the `message` frames a connection has been sent are, *)
(* in the order they were sent, a subsequence of the history log (whose    *)
(* entries are distinct): a message accepted earlier is never sent to a    *)
(* connection after one accepted later, whoever the senders are.           *)
RECURSIVE SubseqFrom(_, _, _, _)
SubseqFrom(a, b, i, j) ==
  IF i > Len(a) THEN TRUE
  ELSE IF j > Len(b) THEN FALSE
  ELSE IF a[i] = b[j] THEN SubseqFrom(a, b, i + 1, j + 1)
  ELSE SubseqFrom(a, b, i, j + 1)

IsSubseq(a, b) == SubseqFrom(a, b, 1, 1)

C2_Ordering ==
  LET h == Ids(history)
  IN /\ Cardinality(Range(h)) = Len(h)
     /\ \A c \in Conns : IsSubseq(rcvd[c], h)

\* a connection has been sent messages of two senders, one accepted in this step
C2_Witness ==
  \E c \in Conns :
    /\ Has(sent[c], "message")
    /\ \E i, j \in DOMAIN history :
         /\ i < j
         /\ history[i].from # history[j].from
         /\ {history[i].id, history[j].id} \subseteq Range(rcvd[c])

(* C3 (P3, rate bound): once a session has counted RATE_LIMIT_MAX (10)     *)
(* `message` events in its window, a further `message` event less than     *)
(* RATE_LIMIT_WINDOW (5000) ms after the window's start is answered with   *)
(* the single frame error "Rate limit exceeded", sent to the sender only,  *)
(* and the history is left as it was.                                      *)
C3_RateBound ==
  [][\A c \in Conns :
       (/\ last' = MessageOn(c)
        /\ sessionId[c] # NoSession
        /\ sessionId[c] \in DOMAIN rateLimitMap
        /\ rateLimitMap[sessionId[c]].count >= RATE_LIMIT_MAX
        /\ now - rateLimitMap[sessionId[c]].last >= 0
        /\ now - rateLimitMap[sessionId[c]].last < RATE_LIMIT_WINDOW) =>
         /\ sent' = OnlyTo(c, ErrorFrame("Rate limit exceeded"))
         /\ history' = history]_vars

\* the 11th `message` event of a window has just been rejected
C3_Witness ==
  \E c \in Conns :
    /\ last = MessageOn(c)
    /\ sessionId[c] \in DOMAIN rateLimitMap
    /\ rateLimitMap[sessionId[c]].count = RATE_LIMIT_MAX + 1
    /\ now - rateLimitMap[sessionId[c]].last < RATE_LIMIT_WINDOW
    /\ sent = OnlyTo(c, ErrorFrame("Rate limit exceeded"))
    /\ Len(SelectSeq(history, LAMBDA m : m.timestamp >= rateLimitMap[sessionId[c]].last))
         = RATE_LIMIT_MAX

(* C4 (P4, history bound): a `history` frame holds exactly the last        *)
(* min(50, n) entries of the history log of n messages as it stands at the *)
(* join, oldest first; it never holds more than 50.                        *)
ExpectedRecent(h) ==
  LET n == Len(h)
      k == IF n < HISTORY_SLICE THEN n ELSE HISTORY_SLICE
  IN [i \in 1..k |-> h[n - k + i]]

C4_HistoryBound ==
  \A c \in Conns : \A i \in DOMAIN sent[c] :
    sent[c][i].type = "history" =>
      /\ sent[c][i].messages = ExpectedRecent(history)
      /\ Len(sent[c][i].messages) <= HISTORY_SLICE

\* a join on a log of more than 50 messages: the frame holds the last 50
C4_Witness ==
  \E c \in Conns : \E i \in DOMAIN sent[c] :
    /\ last = JoinOn(c)
    /\ sent[c][i].type = "history"
    /\ Len(history) > HISTORY_SLICE
    /\ Len(sent[c][i].messages) = HISTORY_SLICE
    /\ sent[c][i].messages[HISTORY_SLICE] = history[Len(history)]

(* C5 (P5, isolation): whatever a step announces (the presence of a join,  *)
(* an accepted message, the presence of a leave) is sent to every          *)
(* connection that is open, also when connections registered before it in  *)
(* wss.clients are closing; a connection that is not open is sent nothing. *)
Announced ==
  {PresenceFrame("join", sessions'[sessionId'[c]].username) :
     c \in {d \in Conns : sessionId'[d] # sessionId[d] /\ sessionId'[d] \in DOMAIN sessions'}}
  \cup {MessageFrame(history'[i]) : i \in (Len(history) + 1)..Len(history')}
  \cup {PresenceFrame("leave", sessions[k].username) : k \in DOMAIN sessions \ DOMAIN sessions'}

C5_Isolation ==
  [][/\ \A e \in Announced : \A d \in Conns :
          readyState'[d] = "OPEN" => e \in Range(sent'[d])
     /\ \A d \in Conns : readyState'[d] # "OPEN" => sent'[d] = <<>>]_vars

\* an open connection has been sent a broadcast frame past a closing one
C5_Witness ==
  \E i, j \in DOMAIN clients :
    /\ i < j
    /\ readyState[clients[i]] = "CLOSING"
    /\ readyState[clients[j]] = "OPEN"
    /\ sent[clients[i]] = <<>>
    /\ Has(sent[clients[j]], "presence") \/ Has(sent[clients[j]], "message")

(* C6: a step that binds a session to a connection (a successful join)     *)
(* sends that connection exactly one `welcome`, carrying the new session   *)
(* id, and exactly one `history`, the welcome before the history; no other *)
(* step sends a welcome or a history, and no connection is ever sent more  *)
(* than one of either.                                                     *)
C6_WelcomeThenHistory ==
  [][\A c \in Conns :
       /\ sessionId'[c] # sessionId[c] =>
            /\ Count(sent'[c], "welcome") = 1
            /\ Count(sent'[c], "history") = 1
            /\ \E i, j \in DOMAIN sent'[c] :
                 /\ i < j
                 /\ sent'[c][i] = WelcomeFrame(sessionId'[c])
                 /\ sent'[c][j].type = "history"
            /\ sessionId'[c] \notin DOMAIN sessions
            /\ sessionId'[c] \in DOMAIN sessions'
       /\ sessionId'[c] = sessionId[c] =>
            Count(sent'[c], "welcome") = 0 /\ Count(sent'[c], "history") = 0
       /\ nWelcome'[c] <= 1
       /\ nHistory'[c] <= 1]_vars

C6_Witness ==
  \E c \in Conns :
    /\ last = JoinOn(c)
    /\ sessionId[c] \in DOMAIN sessions
    /\ Has(sent[c], "welcome") /\ Has(sent[c], "history")
    /\ nWelcome[c] = 1 /\ nHistory[c] = 1

(* C7, as claimed: on the joining connection the frame that follows the    *)
(* `welcome` is the `history` frame.                                       *)
C7_HistoryRightAfterWelcome ==
  \A c \in Conns : \A i \in DOMAIN sent[c] :
    sent[c][i].type = "welcome" =>
      i < Len(sent[c]) /\ sent[c][i + 1].type = "history"

(* C7, amended: a join sends the joining connection exactly three frames:  *)
(* the `welcome`, then the `presence` frame announcing that very join      *)
(* (the joiner is one of the open connections of the broadcast), then the  *)
(* `history`; no message or error frame comes between them.                *)
C7_WelcomePresenceHistory ==
  \A c \in Conns :
    Has(sent[c], "welcome") =>
      /\ Len(sent[c]) = 3
      /\ sent[c][1] = WelcomeFrame(sessionId[c])
      /\ sessionId[c] \in DOMAIN sessions
      /\ sent[c][2] = PresenceFrame("join", sessions[sessionId[c]].username)
      /\ sent[c][3].type = "history"

C7_Witness ==
  \E c \in Conns :
    /\ last = JoinOn(c)
    /\ Len(sent[c]) = 3
    /\ sent[c][1].type = "welcome"
    /\ sent[c][2].type = "presence"
    /\ sent[c][3].type = "history"

(* C8: a join that is accepted (no session bound yet, username a string of *)
(* length >= 2) sends every open connection exactly one `presence` frame,  *)
(* with event "join" and that username; a join that is rejected sends no   *)
(* presence frame to anyone.                                               *)
C8_PresenceOnJoin ==
  [][\A c \in Conns, data \in JoinFrames :
       (last' = JoinOn(c) /\ OnMessage(c, data)) =>
         IF sessionId[c] = NoSession /\ data.username.t = "string" /\ Len(data.username.v) >= 2
         THEN \A d \in Conns :
                IF readyState[d] = "OPEN"
                THEN /\ Count(sent'[d], "presence") = 1
                     /\ PresenceFrame("join", data.username.v) \in Range(sent'[d])
                ELSE Count(sent'[d], "presence") = 0
         ELSE \A d \in Conns : Count(sent'[d], "presence") = 0]_vars

\* two open connections have each been sent the presence of a join
C8_Witness ==
  \E c, d \in Conns :
    /\ c # d
    /\ last = JoinOn(c)
    /\ IsOpen(c) /\ IsOpen(d)
    /\ sessionId[c] \in DOMAIN sessions
    /\ PresenceFrame("join", sessions[sessionId[c]].username) \in Range(sent[c])
    /\ sent[d] = <<PresenceFrame("join", sessions[sessionId[c]].username)>>

(* C9: a `message` event on a joined connection that is not answered with  *)
(* an error is accepted: one message, with a fresh id, the sender's        *)
(* registered username as `from`, the submitted non-empty content and the  *)
(* current time, is appended to the history, and every open connection,    *)
(* the sender included, is sent exactly that message as one frame.         *)
C9_AcceptedMessage ==
  [][\A c \in Conns, data \in MessageFrames :
       (/\ last' = MessageOn(c)
        /\ sessionId[c] # NoSession
        /\ ~Has(sent'[c], "error")
        /\ OnMessage(c, data)) =>
         /\ Len(history') = Len(history) + 1
         /\ SubSeq(history', 1, Len(history)) = history
         /\ LET m == history'[Len(history')]
            IN /\ sessionId[c] \in DOMAIN sessions
               /\ m.from = sessions[sessionId[c]].username
               /\ data.content.t = "string" /\ Len(data.content.v) > 0
               /\ m.content = data.content.v
               /\ m.timestamp = now
               /\ m.id \notin Range(Ids(history))
               /\ \A d \in Conns :
                    sent'[d] = IF readyState[d] = "OPEN" THEN <<MessageFrame(m)>> ELSE <<>>]_vars

\* the sender and another open connection have each been sent the accepted message
C9_Witness ==
  \E c, d \in Conns :
    /\ c # d
    /\ last = MessageOn(c)
    /\ IsOpen(c) /\ IsOpen(d)
    /\ history # <<>>
    /\ sessionId[c] \in DOMAIN sessions
    /\ history[Len(history)].from = sessions[sessionId[c]].username
    /\ sent[c] = <<MessageFrame(history[Len(history)])>>
    /\ sent[d] = sent[c]

(* C10: a `message` frame on a connection with no session is answered with *)
(* the single frame error "Unknown or unauthorized event", sent to that    *)
(* connection only; nothing is appended to the history, no rate-limit      *)
(* entry and no session is created, and the connection stays unbound.      *)
C10_MessageBeforeJoin ==
  [][\A c \in Conns :
       (last' = MessageOn(c) /\ sessionId[c] = NoSession) =>
         /\ sent' = OnlyTo(c, ErrorFrame("Unknown or unauthorized event"))
         /\ history' = history
         /\ rateLimitMap' = rateLimitMap
         /\ sessions' = sessions
         /\ sessionId' = sessionId]_vars

C10_Witness ==
  \E c \in Conns :
    /\ last = MessageOn(c)
    /\ sessionId[c] = NoSession
    /\ sent = OnlyTo(c, ErrorFrame("Unknown or unauthorized event"))

CloseOn(c) == Event("close", c, JUndef)

(* C11: when the close handler of a connection with a session runs, the    *)
(* session is removed from the registry (and nothing else is), every other *)
(* connection that is open is sent exactly one frame, the `presence` frame *)
(* with event "leave" and the username the session was created with, and   *)
(* the closing connection, like every connection that is not open, is sent *)
(* nothing.                                                                *)
C11_LeaveOnClose ==
  [][\A c \in Conns :
       (last' = CloseOn(c) /\ sessionId[c] # NoSession) =>
         /\ sessionId[c] \in DOMAIN sessions
         /\ sessions' = [k \in DOMAIN sessions \ {sessionId[c]} |-> sessions[k]]
         /\ \A d \in Conns :
              sent'[d] = IF d # c /\ readyState'[d] = "OPEN"
                         THEN <<PresenceFrame("leave", sessions[sessionId[c]].username)>>
                         ELSE <<>>]_vars

\* a joined connection has closed and an open one has been sent its leave
C11_Witness ==
  \E c, d \in Conns :
    /\ c # d
    /\ last = CloseOn(c)
    /\ sessionId[c] # NoSession
    /\ sessionId[c] \notin DOMAIN sessions
    /\ sent[c] = <<>>
    /\ IsOpen(d)
    /\ \E u \in {AL, BOB} : sent[d] = <<PresenceFrame("leave", u)>>

(* C12, as claimed: for every session, the stored count of its rate-limit  *)
(* state is at most RATE_LIMIT_MAX (10) while the current time lies in     *)
(* [last, last + RATE_LIMIT_WINDOW).                                       *)
C12_CountBounded ==
  \A sid \in DOMAIN rateLimitMap \cap DOMAIN sessions :
    (rateLimitMap[sid].last <= now /\ now < rateLimitMap[sid].last + RATE_LIMIT_WINDOW) =>
      rateLimitMap[sid].count <= RATE_LIMIT_MAX

(* C12, amended: the stored count is the number of `message` events        *)
(* counted in the session's window, the rejected ones included: it is at   *)
(* least 1, every `message` event less than RATE_LIMIT_WINDOW ms after the *)
(* window's start adds one to it and leaves the start as it was, so it     *)
(* does exceed the maximum; what is bounded is acceptance: an event that   *)
(* leaves the count above RATE_LIMIT_MAX is answered "Rate limit exceeded" *)
(* and appends nothing, so the history only grows with a count <= 10.      *)
C12_CountGatesAcceptance ==
  [][\A c \in Conns :
       (last' = MessageOn(c) /\ sessionId[c] # NoSession) =>
         LET sid == sessionId[c]
         IN /\ sid \in DOMAIN rateLimitMap'
            /\ rateLimitMap'[sid].count >= 1
            /\ (/\ sid \in DOMAIN rateLimitMap
                /\ now - rateLimitMap[sid].last >= 0
                /\ now - rateLimitMap[sid].last < RATE_LIMIT_WINDOW) =>
                 /\ rateLimitMap'[sid].count = rateLimitMap[sid].count + 1
                 /\ rateLimitMap'[sid].last = rateLimitMap[sid].last
            /\ rateLimitMap'[sid].count > RATE_LIMIT_MAX =>
                 /\ history' = history
                 /\ sent' = OnlyTo(c, ErrorFrame("Rate limit exceeded"))
            /\ history' # history => rateLimitMap'[sid].count <= RATE_LIMIT_MAX]_vars

\* a session's stored count is above the maximum inside its window
C12_Witness ==
  \E c \in Conns :
    /\ last = MessageOn(c)
    /\ sessionId[c] \in DOMAIN sessions \cap DOMAIN rateLimitMap
    /\ rateLimitMap[sessionId[c]].count > RATE_LIMIT_MAX
    /\ rateLimitMap[sessionId[c]].last <= now
    /\ now < rateLimitMap[sessionId[c]].last + RATE_LIMIT_WINDOW
    /\ Has(sent[c], "error")

(* C13: a `message` event of a session starts a new window (the stored     *)
(* state becomes count 1, window start now) exactly when the session has   *)
(* no rate-limit state or now - windowStart >= RATE_LIMIT_WINDOW, and      *)
(* otherwise adds one to the count of the running window; it is allowed    *)
(* (not answered "Rate limit exceeded") exactly when the count it leaves   *)
(* is <= RATE_LIMIT_MAX.  So an event exactly RATE_LIMIT_WINDOW ms after   *)
(* the window's start is the first of a new window.                        *)
C13_ResetAtWindow ==
  [][\A c \in Conns :
       (last' = MessageOn(c) /\ sessionId[c] # NoSession) =>
         LET sid == sessionId[c]
             fresh == \/ sid \notin DOMAIN rateLimitMap
                      \/ now - rateLimitMap[sid].last >= RATE_LIMIT_WINDOW
         IN /\ sid \in DOMAIN rateLimitMap'
            /\ rateLimitMap'[sid] =
                 IF fresh THEN [count |-> 1, last |-> now]
                 ELSE [count |-> rateLimitMap[sid].count + 1, last |-> rateLimitMap[sid].last]
            /\ (rateLimitMap'[sid].count <= RATE_LIMIT_MAX)
                 <=> (ErrorFrame("Rate limit exceeded") \notin Range(sent'[c]))]_vars

\* a `message` event exactly RATE_LIMIT_WINDOW ms after the window's start has been
\* counted in that window
C13_Witness ==
  \E c \in Conns :
    /\ last = MessageOn(c)
    /\ sessionId[c] \in DOMAIN rateLimitMap
    /\ now - rateLimitMap[sessionId[c]].last = RATE_LIMIT_WINDOW
    /\ rateLimitMap[sessionId[c]].count > 1

\* `message` frames whose content is missing, not a string, or the empty string
EmptyContentFrames == {f \in MessageFrames : f.content.t # "string" \/ f.content.v = <<>>}

(* C14: a `message` frame without a non-empty string content, on a         *)
(* connection with a session, is answered with the single frame error      *)
(* "Empty message", whatever the session's rate-limit count, and nothing   *)
(* is appended to the history or broadcast.                                *)
C14_EmptyAlwaysEmptyMessage ==
  [][\A c \in Conns, data \in EmptyContentFrames :
       (last' = MessageOn(c) /\ sessionId[c] # NoSession /\ OnMessage(c, data)) =>
         /\ sent' = OnlyTo(c, ErrorFrame("Empty message"))
         /\ history' = history]_vars

(* C15: a `message` event answered with error "Empty message" changes no   *)
(* state: the registry, the history and the rate-limit state (count and    *)
(* window start of the sender included) are after it what they were before.*)
C15_EmptyNoStateChange ==
  [][\A c \in Conns :
       (last' = MessageOn(c) /\ ErrorFrame("Empty message") \in Range(sent'[c])) =>
         /\ sessions' = sessions
         /\ history' = history
         /\ rateLimitMap' = rateLimitMap]_vars

\* a session none of whose messages was accepted has a count: an empty message was counted
C15_Witness ==
  \E c \in Conns :
    /\ last = MessageOn(c)
    /\ sent = OnlyTo(c, ErrorFrame("Empty message"))
    /\ sessionId[c] \in DOMAIN sessions \cap DOMAIN rateLimitMap
    /\ rateLimitMap[sessionId[c]].count = 1
    /\ \A i \in DOMAIN history : history[i].from # sessions[sessionId[c]].username

(* C16: a `join` frame on a connection without a session whose username is *)
(* missing, not a string, or shorter than 2 characters is answered with    *)
(* the single frame error "Invalid username", sent to that connection      *)
(* only (so no welcome, history or presence frame goes to anyone); no      *)
(* session is created, the connection stays unbound, and the history and   *)
(* the rate-limit state are left as they were.                             *)
C16_InvalidUsername ==
  [][\A c \in Conns, data \in JoinFrames :
       (/\ last' = JoinOn(c)
        /\ sessionId[c] = NoSession
        /\ data.username.t # "string" \/ Len(data.username.v) < 2
        /\ OnMessage(c, data)) =>
         /\ sent' = OnlyTo(c, ErrorFrame("Invalid username"))
         /\ sessions' = sessions
         /\ sessionId' = sessionId
         /\ history' = history
         /\ rateLimitMap' = rateLimitMap]_vars

C16_Witness ==
  \E c \in Conns :
    /\ last = JoinOn(c)
    /\ IsOpen(c)
    /\ sessionId[c] = NoSession
    /\ sent = OnlyTo(c, ErrorFrame("Invalid username"))

(* C17: a frame that does not parse is answered with the single frame      *)
(* error "Invalid message format", and a parsed frame whose type is        *)
(* missing, not a string, or none of the known types with a single error   *)
(* frame; the frame is sent to the originating connection only, and the    *)
(* registry, the rate-limit state, the history and the connections'        *)
(* session ids are left as they were.                                      *)
C17_ProtocolErrors ==
  [][\A c \in Conns, data \in OtherFrames :
       (last' = Event("message", c, data.type) /\ OnMessage(c, data)) =>
         /\ Len(sent'[c]) = 1
         /\ sent'[c][1].type = "error"
         /\ ~data.json => sent'[c][1] = ErrorFrame("Invalid message format")
         /\ \A d \in Conns \ {c} : sent'[d] = <<>>
         /\ sessions' = sessions
         /\ rateLimitMap' = rateLimitMap
         /\ history' = history
         /\ sessionId' = sessionId]_vars

\* an unparseable frame on a joined connection has been answered, another connection is open
C17_Witness ==
  \E c, d \in Conns :
    /\ c # d
    /\ last = Event("message", c, JUndef)
    /\ sessionId[c] \in DOMAIN sessions
    /\ IsOpen(d)
    /\ sent = OnlyTo(c, ErrorFrame("Invalid message format"))

(* C18: an error frame is sent only by the handling of an inbound frame,   *)
(* only to the connection the frame arrived on, and at most once per       *)
(* frame; the handling of an inbound frame closes no connection (no        *)
(* socket changes its readyState or leaves wss.clients) and removes or     *)
(* changes no session of the registry.                                     *)
C18_ErrorsToOriginator ==
  [][/\ \A d \in Conns :
          Has(sent'[d], "error") =>
            /\ last'.op = "message"
            /\ last'.conn = d
            /\ Count(sent'[d], "error") = 1
     /\ last'.op = "message" =>
          /\ readyState' = readyState
          /\ clients' = clients
          /\ \A k \in DOMAIN sessions : k \in DOMAIN sessions' /\ sessions'[k] = sessions[k]]_vars

\* a joined connection has been sent an error, keeps its session and stays open, and
\* another open connection has been sent nothing
C18_Witness ==
  \E c, d \in Conns :
    /\ c # d
    /\ last.op = "message" /\ last.conn = c
    /\ Has(sent[c], "error")
    /\ IsOpen(c) /\ IsOpen(d)
    /\ sessionId[c] \in DOMAIN sessions
    /\ sent[d] = <<>>

(* C19: the session ids that have a rate-limit entry are session ids of    *)
(* the registry: once a session is removed (its connection closed), no     *)
(* rate-limit entry for it remains.                                        *)
C19_RateLimitWithSession == DOMAIN rateLimitMap \subseteq DOMAIN sessions

\* a connection has closed, its session is gone and its rate-limit entry is still there
C19_Witness ==
  \E c \in Conns :
    /\ last = CloseOn(c)
    /\ readyState[c] = "CLOSED"
    /\ sessionId[c] \notin DOMAIN sessions
    /\ sessionId[c] \in DOMAIN rateLimitMap

\* a connection whose 'close' handler has not run yet
Live(c) == readyState[c] \in {"OPEN", "CLOSING"}
Bound(ss, sid, rs) ==
  {ss[k].id : k \in DOMAIN ss} =
    {sid[c] : c \in {d \in Conns : rs[d] \in {"OPEN", "CLOSING"} /\ sid[d] # NoSession}}

(* C20: in every state the registry holds exactly the sessions of the      *)
(* connections that have joined and whose close handler has not run, each  *)
(* under its own id: every such connection has its session, every session  *)
(* belongs to exactly one such connection, no two connections have the     *)
(* same session id, a session id once bound to a connection is never       *)
(* replaced, and when no connection is left the registry is empty.         *)
C20_SessionPerConnection ==
  [][/\ Bound(sessions, sessionId, readyState)
     /\ Bound(sessions', sessionId', readyState')
     /\ \A k \in DOMAIN sessions' : sessions'[k].id = k
     /\ \A c, d \in Conns :
          (c # d /\ sessionId'[c] # NoSession) => sessionId'[c] # sessionId'[d]
     /\ \A c \in Conns : sessionId[c] # NoSession => sessionId'[c] = sessionId[c]
     /\ (\A c \in Conns : ~Live(c)') => sessions' = <<>>]_vars

\* a joined connection has closed and its session is gone, while another joined
\* connection is still there with its session
C20_Witness ==
  \E c, d \in Conns :
    /\ c # d
    /\ last = CloseOn(c)
    /\ sessionId[c] # NoSession
    /\ sessionId[c] \notin DOMAIN sessions
    /\ Live(d)
    /\ DOMAIN sessions = {sessionId[d]}

(* C21 (registry read-after-write): createSession(id, username) returns a  *)
(* session with that id and username, and from then on getSession(id)      *)
(* returns that very session and listSessions() contains it, until         *)
(* removeSession(id) (or another createSession(id, ..)) is called; a call  *)
(* changes the listed sessions by the one of its id only, so the list is   *)
(* exactly the sessions created and not removed since.                     *)
C21_ReadAfterWrite ==
  [][/\ \A id \in RegIds, username \in RegNames :
          CreateSessionCall(id, username) =>
            /\ last'.type.id = id
            /\ last'.type.username = username
            /\ HasSession(sessions', id)
            /\ getSession(sessions', id) = last'.type
            /\ last'.type \in listSessions(sessions')
            /\ listSessions(sessions') =
                 {s \in listSessions(sessions) : s.id # id} \cup {last'.type}
     /\ \A id \in RegIds :
          RemoveSessionCall(id) =>
            listSessions(sessions') = {s \in listSessions(sessions) : s.id # id}
     /\ \A id \in RegIds :
          last'.conn # id =>
            /\ HasSession(sessions', id) <=> HasSession(sessions, id)
            /\ HasSession(sessions, id) => getSession(sessions', id) = getSession(sessions, id)]_vars

\* a session has just been created next to another one, and a third id is not there
C21_Witness ==
  \E id, other, gone \in RegIds :
    /\ id # other
    /\ last.op = "createSession" /\ last.conn = id
    /\ getSession(sessions, id) = last.type
    /\ HasSession(sessions, other)
    /\ ~HasSession(sessions, gone)
    /\ Cardinality(listSessions(sessions)) = 2

(* C22 (idempotent removal): after removeSession(id), getSession(id) is    *)
(* absent; when id was not in the registry (a second removal of the same   *)
(* id included) the registry is left as it was; no other session is ever   *)
(* affected.                                                               *)
C22_RemoveIdempotent ==
  [][\A id \in RegIds :
       RemoveSessionCall(id) =>
         /\ ~HasSession(sessions', id)
         /\ ~HasSession(sessions, id) => sessions' = sessions
         /\ removeSession(sessions', id) = sessions'
         /\ \A k \in RegIds \ {id} :
              /\ HasSession(sessions', k) <=> HasSession(sessions, k)
              /\ HasSession(sessions, k) => getSession(sessions', k) = getSession(sessions, k)]_vars

\* an id has been removed and the other sessions are still there
C22_Witness ==
  \E id \in RegIds :
    /\ last.op = "removeSession" /\ last.conn = id
    /\ ~HasSession(sessions, id)
    /\ Cardinality(listSessions(sessions)) = MaxIds - 1

(* C23: the history grows only by the handling of a `message` frame, by    *)
(* one entry with a fresh id, and in that very step every open connection  *)
(* is sent that entry as its one `message` frame; a step that appends      *)
(* nothing sends no `message` frame, and a step that answers with an error *)
(* (a rate-limit denial included) appends nothing, in that step or, there  *)
(* being no other step that appends, ever after.  So every `message` frame *)
(* a connection has been sent is an entry of the history, sent to it once. *)
C23_OnlyAccepted ==
  [][LET grew == Len(history') - Len(history)
     IN /\ grew \in {0, 1}
        /\ SubSeq(history', 1, Len(history)) = history
        /\ grew = 1 =>
             /\ last'.op = "message"
             /\ history'[Len(history')].id \notin Range(Ids(history))
             /\ \A d \in Conns :
                  sent'[d] = IF readyState[d] = "OPEN"
                             THEN <<MessageFrame(history'[Len(history')])>> ELSE <<>>
        /\ grew = 0 => \A d \in Conns : ~Has(sent'[d], "message")
        /\ (\E d \in Conns : Has(sent'[d], "error")) => grew = 0
        /\ \A d \in Conns :
             /\ Range(rcvd'[d]) \subseteq Range(Ids(history'))
             /\ Cardinality(Range(rcvd'[d])) = Len(rcvd'[d])]_vars

\* a message has been rejected by the rate limiter: the history is what the sender has
\* been sent, message by message
C23_Witness ==
  \E c \in Conns :
    /\ last = MessageOn(c)
    /\ sent = OnlyTo(c, ErrorFrame("Rate limit exceeded"))
    /\ history # <<>>
    /\ rcvd[c] = Ids(history)

InWindowFrom(i) ==
  {k \in DOMAIN history :
     /\ history[k].from = history[i].from
     /\ history[k].timestamp >= history[i].timestamp
     /\ history[k].timestamp <= history[i].timestamp + RATE_LIMIT_WINDOW}

(* C27 (burst bound): in any interval of RATE_LIMIT_WINDOW (5000) ms,      *)
(* wherever it lies, at most 2 * RATE_LIMIT_MAX (20) messages of one       *)
(* session are accepted.  (An interval that holds some accepted message    *)
(* holds no more than the interval that starts at its first one.)          *)
C27_BurstBound ==
  \A i \in DOMAIN history : Cardinality(InWindowFrom(i)) <= 2 * RATE_LIMIT_MAX

\* a burst across a window boundary: more than RATE_LIMIT_MAX messages, 19 of them,
\* accepted within RATE_LIMIT_WINDOW ms
C27_Witness ==
  \E i \in DOMAIN history :
    /\ Cardinality(InWindowFrom(i)) = 2 * RATE_LIMIT_MAX - 1
    /\ \E k \in InWindowFrom(i) : history[k].timestamp > history[i].timestamp

(* C25: the history only grows at its tail: every step leaves the entries  *)
(* already there as and where they are (none changed, moved or deleted),   *)
(* so a stored message is part of every later read; an entry is appended   *)
(* when its message is accepted, with the time and a fresh id of that      *)
(* moment, so the log is in acceptance order.                              *)
C25_AppendOnly ==
  [][/\ Len(getMessages(history')) >= Len(getMessages(history))
     /\ \A i \in DOMAIN history : getMessages(history')[i] = history[i]
     /\ \A i \in DOMAIN history' \ DOMAIN history :
          /\ i = Len(history) + 1
          /\ history'[i].timestamp = now
          /\ history'[i].id = uuid
          /\ \A k \in DOMAIN history :
               history[k].timestamp <= now /\ history[k].id < uuid]_vars

\* a message of one sender has been appended behind a message of another
C25_Witness ==
  \E c \in Conns :
    /\ last = MessageOn(c)
    /\ Len(history) >= 2
    /\ sessionId[c] \in DOMAIN sessions
    /\ history[Len(history)].from = sessions[sessionId[c]].username
    /\ history[Len(history) - 1].from # history[Len(history)].from
    /\ history[Len(history)].id > history[Len(history) - 1].id

(* C28: when the close handler of a connection without a session runs,     *)
(* the registry, the rate-limit state and the history stay as they were    *)
(* and no frame, of presence or of any other type, is sent to anyone.      *)
C28_CloseUnjoined ==
  [][\A c \in Conns :
       (last' = CloseOn(c) /\ sessionId[c] = NoSession) =>
         /\ sessions' = sessions
         /\ rateLimitMap' = rateLimitMap
         /\ history' = history
         /\ sent' = NoneSent]_vars

\* a connection that never joined has closed next to an open, joined one
C28_Witness ==
  \E c, d \in Conns :
    /\ c # d
    /\ last = CloseOn(c)
    /\ sessionId[c] = NoSession
    /\ readyState[c] = "CLOSED"
    /\ IsOpen(d)
    /\ sessionId[d] \in DOMAIN sessions
    /\ sent = NoneSent

(* C30: presence frames pair up with sessions.  A step sends `presence`    *)
(* join frames exactly when it creates a session, one to every open        *)
(* connection, with the session's username; it sends `presence` leave      *)
(* frames only when it removes a session, with that session's username; a  *)
(* session is created under an id never used before and removed at most    *)
(* once, so its leave comes after its join and only once; and a `message`  *)
(* frame is only ever sent with the username of a session that is in the   *)
(* registry: after its join and before its leave.                          *)
C30_PresencePaired ==
  [][LET created == DOMAIN sessions' \ DOMAIN sessions
         removed == DOMAIN sessions \ DOMAIN sessions'
         joins == {PresenceFrame("join", sessions'[k].username) : k \in created}
         leaves == {PresenceFrame("leave", sessions[k].username) : k \in removed}
     IN /\ Cardinality(created) + Cardinality(removed) <= 1
        /\ \A k \in created : k = uuid /\ uuid' > uuid
        /\ \A k \in DOMAIN sessions : k < uuid
        /\ uuid' >= uuid
        /\ \A d \in Conns : \A i \in DOMAIN sent'[d] :
             /\ sent'[d][i].type = "presence" => sent'[d][i] \in joins \cup leaves
             /\ sent'[d][i].type = "message" =>
                  \E k \in DOMAIN sessions \cap DOMAIN sessions' :
                    /\ sessions[k].username = sent'[d][i].from
                    /\ k = sessionId[last'.conn]
        /\ created # {} =>
             \A d \in Conns : readyState[d] = "OPEN" => Count(sent'[d], "presence") = 1
        /\ \A d \in Conns : Count(sent'[d], "presence") <= 1]_vars

\* a session created in this behaviour has been removed: the connection that saw its
\* join has been sent its leave
C30_Witness ==
  \E c, d \in Conns :
    /\ c # d
    /\ last = CloseOn(c)
    /\ sessionId[c] # NoSession
    /\ sessionId[c] \notin DOMAIN sessions
    /\ sessionId[d] \in DOMAIN sessions
    /\ sessionId[d] < sessionId[c]
    /\ sent[d] = <<PresenceFrame("leave", BOB)>>

(* C26: a `message` of a joined connection whose content the moderation    *)
(* store flags (it includes a banned word) is answered with an error to    *)
(* the sender, is not appended to the history and is sent to no one.       *)
C26_ModerationRejects ==
  [][\A c \in Conns, data \in ContentFrames :
       (/\ last' = MessageOn(c)
        /\ sessionId[c] \in DOMAIN sessions
        /\ data.type.v = MESSAGE
        /\ moderateMessage(sessions[sessionId[c]].username, data.content.v).flagged
        /\ OnMessage(c, data)) =>
         /\ Has(sent'[c], "error")
         /\ history' = history
         /\ \A d \in Conns : ~Has(sent'[d], "message")]_vars

\* a message the moderation store flags is in the history and has been sent to its sender
C26_Witness ==
  \E c \in Conns :
    /\ last = MessageOn(c)
    /\ history # <<>>
    /\ LET m == history[Len(history)]
       IN /\ moderateMessage(m.from, m.content) =
               [flagged |-> TRUE, reason |-> FlaggedFor(SPAM)]
          /\ sent[c] = <<MessageFrame(m)>>

(* C29, as claimed: every message of the history has a sender name of      *)
(* length >= 2 that is never 'unknown', and a non-empty content.           *)
C29_NeverUnknown ==
  \A i \in DOMAIN history :
    /\ history[i].from # UNKNOWN
    /\ Len(history[i].from) >= 2
    /\ Len(history[i].content) > 0

(* C29, amended: when a message is accepted its sender's session is in the *)
(* registry, so the fallback name is never used: `from`, in the history    *)
(* and in the frames sent, is the username that session joined with, a     *)
(* string of length >= 2 (which is 'unknown' when, and only when, the      *)
(* user joined under that name), and `content` is a non-empty string.      *)
C29_SenderRegistered ==
  [][\A i \in DOMAIN history' \ DOMAIN history :
       LET c == last'.conn
           m == history'[i]
       IN /\ last'.op = "message"
          /\ sessionId[c] \in DOMAIN sessions
          /\ m.from = sessions[sessionId[c]].username
          /\ Len(m.from) >= 2
          /\ Len(m.content) > 0
          /\ \A d \in Conns : \A j \in DOMAIN sent'[d] :
               sent'[d][j].type = "message" => sent'[d][j] = MessageFrame(m)]_vars

\* a user who joined as "unknown" has had a message accepted
C29_Witness ==
  \E c \in Conns :
    /\ last = MessageOn(c)
    /\ sessionId[c] \in DOMAIN sessions
    /\ sessions[sessionId[c]].username = UNKNOWN
    /\ history # <<>>
    /\ history[Len(history)].from = UNKNOWN
    /\ sent[c] = <<MessageFrame(history[Len(history)])>>

====
